---------------------------- MODULE Spec2Model ----------------------------
(***************************************************************************)
(* DyeMind (src/app.py): one run of the Streamlit script.  The credential  *)
(* gate, the query input, the two lookup clients (PubChem, PubMed), the    *)
(* prompt assembly and the retry loop of generate_ai_review around         *)
(* query_huggingface / parse_hf_output.                                    *)
(*                                                                         *)
(* Text is modelled as a sequence of one-character strings, so that        *)
(* str.lower(), the `in` substring test, slicing and concatenation are     *)
(* computed and not assumed.  The two code points of the warning sign are  *)
(* the elements "U+26A0" and "U+FE0F".                                     *)
(***************************************************************************)
EXTENDS Integers, Sequences, FiniteSets, TLC

VARIABLES
    pc,            \* position of the script
    secrets,       \* keys present in st.secrets
    query,         \* value of the text input
    chem,          \* result of get_pubchem_data
    articles,      \* result of get_pubmed_literature
    fetched,       \* number of PubmedArticle nodes parsed by the last efetch
    lookups,       \* log of the lookup requests issued, with their outcome
    chem_context,  \* generate_ai_review: chemistry block of the prompt
    lit_context,   \* generate_ai_review: literature block of the prompt
    attempt,       \* generate_ai_review: loop iterations begun
    reply,         \* the HTTP exchange of the last inference request
    events,        \* log of inference requests and time.sleep calls
    only_loading,  \* history: every attempt so far reported a "loading" error
    cid,           \* get_pubchem_data: identifier found by the name search
    ret,           \* how generate_ai_review ended
    status         \* content of status_placeholder

vars == <<pc, secrets, query, chem, articles, fetched, lookups, chem_context,
          lit_context, attempt, reply, events, only_loading, cid, ret, status>>

-----------------------------------------------------------------------------
(* Bounds of the model *)

\* PubmedArticle nodes in one efetch document
MaxFetched == 5
\* PubmedArticle nodes in one efetch document of the whole-script specification
MaxFew == 1
\* characters by which the longest abstract exceeds the per-item budget
MaxOver == 1

(* Program constants *)

\* range(4): one attempt too many
MaxAttemptsPlusOne == 3 + 1
\* for attempt in range(3)
MaxAttempts == 3
\* articles[:3]
LitLimit == 3
\* art['abstract'][:300]
AbstractBudget == 300
\* time.sleep(3)
RetryDelay == 3

-----------------------------------------------------------------------------
(* String literals of the program and texts of the environment *)

LOADING ==
    <<"l","o","a","d","i","n","g">>

API_URL ==
    <<"h","t","t","p","s",":","/","/","a","p","i","-","i","n","f","e","r",
      "e","n","c","e",".","h","u","g","g","i","n","g","f","a","c","e",".",
      "c","o","/","m","o","d","e","l","s","/","E","s","s","e","n","t","i",
      "a","l","A","I","/","r","n","j","-","1","-","i","n","s","t","r","u",
      "c","t">>

AI_ERROR_PREFIX ==
    <<"U+26A0","U+FE0F"," ","A","I"," ","E","r","r","o","r",":"," ">>

SERVICE_BUSY ==
    <<"U+26A0","U+FE0F"," ","A","I"," ","S","e","r","v","i","c","e"," ","B",
      "u","s","y"," ","o","r"," ","u","n","e","x","p","e","c","t","e","d",
      " ","r","e","s","p","o","n","s","e"," ","f","o","r","m","a","t",".",
      " ","P","l","e","a","s","e"," ","t","r","y"," ","a","g","a","i","n",
      " ","i","n"," ","3","0"," ","s","e","c","o","n","d","s",".">>

ServerErrorText ==
    <<" ","S","e","r","v","e","r"," ","E","r","r","o","r",":"," ">>

ClientErrorText ==
    <<" ","C","l","i","e","n","t"," ","E","r","r","o","r",":"," ">>

AttributeErrorName ==
    <<"A","t","t","r","i","b","u","t","e","E","r","r","o","r">>

ForUrlText ==
    <<" ","f","o","r"," ","u","r","l",":"," ">>

ServiceUnavailable ==
    <<"S","e","r","v","i","c","e"," ","U","n","a","v","a","i","l","a","b",
      "l","e">>

ReadTimedOut ==
    <<"H","T","T","P","S","C","o","n","n","e","c","t","i","o","n","P","o",
      "o","l","(","h","o","s","t","=","'","a","p","i","-","i","n","f","e",
      "r","e","n","c","e",".","h","u","g","g","i","n","g","f","a","c","e",
      ".","c","o","'",","," ","p","o","r","t","=","4","4","3",")",":"," ",
      "R","e","a","d"," ","t","i","m","e","d"," ","o","u","t","."," ","(",
      "r","e","a","d"," ","t","i","m","e","o","u","t","=","6","0",")">>

ExpectingValue ==
    <<"E","x","p","e","c","t","i","n","g"," ","v","a","l","u","e",":"," ",
      "l","i","n","e"," ","1"," ","c","o","l","u","m","n"," ","1"," ","(",
      "c","h","a","r"," ","0",")">>

MsgModelLoading ==
    <<"M","o","d","e","l"," ","E","s","s","e","n","t","i","a","l","A","I",
      "/","r","n","j","-","1","-","i","n","s","t","r","u","c","t"," ","i",
      "s"," ","c","u","r","r","e","n","t","l","y"," ","l","o","a","d","i",
      "n","g">>

MsgLoadingCaps ==
    <<"L","o","a","d","i","n","g"," ","m","o","d","e","l",","," ","r","e",
      "t","r","y"," ","l","a","t","e","r">>

MsgRateLimit ==
    <<"R","a","t","e"," ","l","i","m","i","t"," ","r","e","a","c","h","e",
      "d">>

TextOverview ==
    <<"*","*","1","."," ","O","v","e","r","v","i","e","w",":","*","*"," ",
      "F","u","r","a","-","2"," ","i","s"," ","a"," ","c","a","l","c","i",
      "u","m"," ","p","r","o","b","e",".">>

TextShort ==
    <<"B","i","m","a","n","e">>

SMILES_PREFIX ==
    <<"S","M","I","L","E","S",":"," ">>

STRUCTURE_UNAVAILABLE ==
    <<"S","t","r","u","c","t","u","r","e"," ","u","n","a","v","a","i","l",
      "a","b","l","e",".">>

NO_LITERATURE ==
    <<"N","o"," ","s","p","e","c","i","f","i","c"," ","l","i","t","e","r",
      "a","t","u","r","e"," ","a","b","s","t","r","a","c","t","s"," ","f",
      "o","u","n","d"," ","i","n"," ","P","u","b","M","e","d",".">>

NOT_AVAILABLE ==
    <<"N","/","A">>

ELLIPSIS ==
    <<".",".",".">>

SmilesFura ==
    <<"C","C","1","=","C","C","=","C","C","=","C","1">>

FormulaFura ==
    <<"C","7","H","8">>

PUBCHEM_BASE ==
    <<"h","t","t","p","s",":","/","/","p","u","b","c","h","e","m",".","n",
      "c","b","i",".","n","l","m",".","n","i","h",".","g","o","v","/","r",
      "e","s","t","/","p","u","g">>

PUBCHEM_CID_PATH ==
    <<"/","c","o","m","p","o","u","n","d","/","c","i","d","/">>

PUBCHEM_PNG ==
    <<"/","P","N","G","?","r","e","c","o","r","d","_","t","y","p","e","=",
      "2","d","&","i","m","a","g","e","_","s","i","z","e","=","l","a","r",
      "g","e">>

PUBCHEM_LINK ==
    <<"h","t","t","p","s",":","/","/","p","u","b","c","h","e","m",".","n",
      "c","b","i",".","n","l","m",".","n","i","h",".","g","o","v","/","c",
      "o","m","p","o","u","n","d","/">>

TitlePrefix ==
    <<"A","r","t","i","c","l","e"," ">>

QueryFura ==
    <<"F","u","r","a","-","2">>

-----------------------------------------------------------------------------
(* Text primitives *)

UpperChars ==
    <<"A","B","C","D","E","F","G","H","I","J","K","L","M","N","O","P","Q",
      "R","S","T","U","V","W","X","Y","Z">>

LowerChars ==
    <<"a","b","c","d","e","f","g","h","i","j","k","l","m","n","o","p","q",
      "r","s","t","u","v","w","x","y","z">>

DigitChars == <<"0","1","2","3","4","5","6","7","8","9">>

LowerChar(c) ==
    IF \E i \in 1..Len(UpperChars) : UpperChars[i] = c
    THEN LowerChars[CHOOSE i \in 1..Len(UpperChars) : UpperChars[i] = c]
    ELSE c

\* str.lower()
lower(s) == [i \in 1..Len(s) |-> LowerChar(s[i])]

\* needle in s
Contains(needle, s) ==
    \E i \in 0..(Len(s) - Len(needle)) : SubSeq(s, i + 1, i + Len(needle)) = needle

\* s[:n], for strings and for lists
Take(s, n) == SubSeq(s, 1, IF Len(s) < n THEN Len(s) ELSE n)

\* str(n) of a natural number
RECURSIVE Str(_)
Str(n) ==
    IF n < 10 THEN <<DigitChars[n + 1]>>
    ELSE Str(n \div 10) \o <<DigitChars[(n % 10) + 1]>>

-----------------------------------------------------------------------------
(* JSON values as the program inspects them.  A scalar is a value found    *)
(* under a key; a node is a top-level value or a list element.             *)

Scalar(kind, text, num) == [kind |-> kind, text |-> text, num |-> num]
JNull == Scalar("null", <<>>, 0)
JStr(s) == Scalar("str", s, 0)
JInt(n) == Scalar("int", <<>>, n)
\* a nested list of num elements
JArr(n) == Scalar("list", <<>>, n)

Elem(kind, keys, err, gt) ==
    [kind |-> kind, keys |-> keys, error |-> err, generated_text |-> gt]
Node(kind, keys, err, gt, elems) ==
    [kind |-> kind, keys |-> keys, error |-> err, generated_text |-> gt,
     elems |-> elems]

JDict(keys, err, gt) == Node("dict", keys, err, gt, <<>>)
JList(elems) == Node("list", {}, JNull, JNull, elems)
JOther(kind) == Node(kind, {}, JNull, JNull, <<>>)

\* Python truth value of a scalar
Truthy(v) ==
    CASE v.kind = "str" -> Len(v.text) > 0
      [] v.kind = "int" -> v.num # 0
      [] v.kind = "list" -> v.num > 0
      [] OTHER -> FALSE

-----------------------------------------------------------------------------
(* Inference client: query_huggingface *)

\* One HTTP exchange with the inference endpoint.  transport "timeout": no
\* response within the timeout; json FALSE: the body is not JSON.
HfReply(transport, code, json, body) ==
    [transport |-> transport, code |-> code, json |-> json, body |-> body]

ErrorDict(text) == JDict({"error"}, JStr(text), JNull)

BodyLoading == ErrorDict(MsgModelLoading)

HfBodies ==
    {JList(<<Elem("dict", {"generated_text"}, JNull, JStr(TextOverview))>>),
     JDict({"generated_text"}, JNull, JStr(TextShort))}
    \cup { JList(<<Elem("dict", {"generated_text"}, JNull, JStr(<<>>))>>),
           JDict({"generated_text"}, JNull, JNull),
           JDict({"generated_text", "error"}, JStr(MsgModelLoading), JStr(TextShort)),
           JList(<<>>),
           JList(<<Elem("str", {}, JNull, JNull)>>),
           JOther("str"),
           BodyLoading,
           ErrorDict(MsgLoadingCaps),
           ErrorDict(MsgRateLimit),
           JDict({"error"}, JArr(1), JNull) }

HfReplies ==
    {HfReply("ok", 200, TRUE, b) : b \in HfBodies}
    \cup { HfReply("ok", 503, TRUE, BodyLoading),
           HfReply("ok", 200, FALSE, JOther("null")),
           HfReply("timeout", 0, FALSE, JOther("null")) }

NoReply == HfReply("none", 0, FALSE, JOther("null"))

\* str(e) of the HTTPError raised by response.raise_for_status()
HTTPErrorText(code) ==
    Str(code) \o (IF code < 500 THEN ClientErrorText ELSE ServerErrorText)
              \o ServiceUnavailable \o ForUrlText \o API_URL

query_huggingface(r) ==
    IF r.transport # "ok" THEN ErrorDict(ReadTimedOut)
    ELSE IF r.code >= 400 THEN ErrorDict(HTTPErrorText(r.code))
    ELSE IF ~r.json THEN ErrorDict(ExpectingValue)
    ELSE r.body

-----------------------------------------------------------------------------
(* Report generator: parse_hf_output and the loop body of generate_ai_review *)

\* parse_hf_output without its second case
parse_hf_output_list_only(output) ==
    IF /\ output.kind = "list"
       /\ Len(output.elems) > 0
       /\ output.elems[1].kind = "dict"
       /\ "generated_text" \in output.elems[1].keys
    THEN output.elems[1].generated_text
    ELSE JNull

parse_hf_output(output) ==
    IF /\ output.kind = "list"
       /\ Len(output.elems) > 0
       /\ output.elems[1].kind = "dict"
       /\ "generated_text" \in output.elems[1].keys
    THEN output.elems[1].generated_text
    ELSE IF output.kind = "dict" /\ "generated_text" \in output.keys
    THEN output.generated_text
    ELSE JNull

\* isinstance(output, dict) and "error" in output
HasErrorField(output) == output.kind = "dict" /\ "error" \in output.keys

\* every reported error taken for a warm-up
IsLoadingAlways(err) == TRUE
\* "loading" in output["error"].lower()
IsLoading(err) == Contains(LOADING, lower(err.text))

Return(v) == [kind |-> "return", value |-> v]
Raise(exc) == [kind |-> "raise", value |-> JStr(exc)]
Running == [kind |-> "none", value |-> JNull]

Request == [kind |-> "request", seconds |-> 0]
Sleep(s) == [kind |-> "sleep", seconds |-> s]

\* What one loop iteration does with the output of query_huggingface:
\* end |-> how the function ends (Running: the loop goes on),
\* slept |-> the time.sleep calls made.
HandleOutput(output) ==
    IF HasErrorField(output)
    THEN IF output.error.kind # "str"
         THEN [end |-> Raise(AttributeErrorName), slept |-> <<>>]
         ELSE IF IsLoading(output.error)
              THEN [end |-> Running, slept |-> <<Sleep(RetryDelay)>>]
              ELSE [end |-> Return(JStr(AI_ERROR_PREFIX \o output.error.text)),
                    slept |-> <<>>]
    ELSE LET text == parse_hf_output(output)
         IN  IF Truthy(text)
             THEN [end |-> Return(text), slept |-> <<>>]
             ELSE [end |-> Running, slept |-> <<>>]

-----------------------------------------------------------------------------
(* Lookup clients: get_pubchem_data and get_pubmed_literature *)

None == [present |-> FALSE, cid |-> 0, smiles |-> <<>>, formula |-> <<>>,
         image |-> <<>>, link |-> <<>>]

\* requests.get(...).json() of the two PubChem requests.  has_table: the body
\* has the keys the code subscripts; rows: the list under them.
LookupReply(transport, json, has_table, rows) ==
    [transport |-> transport, json |-> json, has_table |-> has_table,
     rows |-> rows]

LookupFailures ==
    { LookupReply("timeout", FALSE, FALSE, <<>>),
      LookupReply("ok", FALSE, FALSE, <<>>),
      LookupReply("ok", TRUE, FALSE, <<>>) }

CidReplies ==
    LookupFailures
    \cup { LookupReply("ok", TRUE, TRUE, <<>>),
           LookupReply("ok", TRUE, TRUE, <<5, 7>>) }

Property(keys, smiles, formula) ==
    [keys |-> keys, CanonicalSMILES |-> smiles, MolecularFormula |-> formula]

PropertyReplies ==
    LookupFailures
    \cup { LookupReply("ok", TRUE, TRUE, <<>>),
           LookupReply("ok", TRUE, TRUE,
               <<Property({"CanonicalSMILES", "MolecularFormula"},
                          SmilesFura, FormulaFura)>>),
           LookupReply("ok", TRUE, TRUE, <<Property({}, <<>>, <<>>)>>) }

IdReplies ==
    LookupFailures
    \cup { LookupReply("ok", TRUE, TRUE, <<>>),
           LookupReply("ok", TRUE, TRUE, <<"101", "102">>) }

\* requests.get(...).json() followed by subscripting [..][..][0]: raises on a
\* transport error, a body that is not JSON, a missing key and an empty list
FirstRowRaises(r) ==
    r.transport # "ok" \/ ~r.json \/ ~r.has_table \/ Len(r.rows) = 0

\* search.get("esearchresult", {}).get("idlist", [])
IdList(r) == IF r.has_table THEN r.rows ELSE <<>>
IdListRaises(r) == r.transport # "ok" \/ ~r.json

\* prop_data.get(key, 'N/A')
GetOr(prop, key, value) == IF key \in prop.keys THEN value ELSE NOT_AVAILABLE

ChemRecord(c, prop) ==
    [present |-> TRUE,
     cid |-> c,
     smiles |-> GetOr(prop, "CanonicalSMILES", prop.CanonicalSMILES),
     formula |-> GetOr(prop, "MolecularFormula", prop.MolecularFormula),
     image |-> PUBCHEM_BASE \o PUBCHEM_CID_PATH \o Str(c) \o PUBCHEM_PNG,
     link |-> PUBCHEM_LINK \o Str(c)]

\* Outcome of a lookup request as logged: "exception" when the step raised
\* for another reason than an empty result list
Outcome(r, raises) ==
    IF r.transport = "ok" /\ r.json /\ r.has_table /\ Len(r.rows) = 0
    THEN "empty"
    ELSE IF raises THEN "exception" ELSE "ok"

Logged(name, r, raises) == [request |-> name, outcome |-> Outcome(r, raises)]

\* no handler: the exception leaves the lookup client
ExceptNothing == "reraise"
\* except Exception: return None / return []
ExceptException == "return_sentinel"

\* The efetch document: transport, well-formedness, and the AbstractText of
\* each PubmedArticle node.  An abstract is absent (findtext gives None) or a
\* text, possibly empty.
AbstractOfLen(n) == [i \in 1..n |-> DigitChars[(i % 10) + 1]]

AbstractLens == {0, 2, AbstractBudget, AbstractBudget + MaxOver}

TextNode(present, text) == [present |-> present, text |-> text]

AbstractNodes ==
    {TextNode(FALSE, <<>>)} \cup {TextNode(TRUE, AbstractOfLen(n)) : n \in AbstractLens}

RECURSIVE NodeLists(_)
NodeLists(n) ==
    IF n = 0 THEN {<<>>}
    ELSE LET shorter == NodeLists(n - 1)
         IN  shorter \cup {Append(s, a) : s \in {x \in shorter : Len(x) = n - 1},
                                          a \in AbstractNodes}

FetchReply(transport, wellformed, nodes) ==
    [transport |-> transport, wellformed |-> wellformed, nodes |-> nodes]

FetchReplies ==
    { FetchReply("timeout", FALSE, <<>>), FetchReply("ok", FALSE, <<>>) }
    \cup {FetchReply("ok", TRUE, nodes) : nodes \in NodeLists(MaxFetched)}

\* The documents the whole-script specification draws from: few nodes, with
\* abstracts below the budget
FewFetchReplies ==
    { FetchReply("timeout", FALSE, <<>>), FetchReply("ok", FALSE, <<>>) }
    \cup {FetchReply("ok", TRUE, nodes) :
             nodes \in {n \in NodeLists(MaxFew) :
                          \A i \in 1..Len(n) : Len(n[i].text) < AbstractBudget}}

\* requests.get(...).content, ET.fromstring(details)
FetchRaises(r) == r.transport # "ok" \/ ~r.wellformed

\* art.findtext(".//ArticleTitle") of the i-th node
Title(i) == TitlePrefix \o Str(i)

\* if abstract:
KeepArticle(node) == node.present /\ Len(node.text) > 0

\* the loop over root.findall(".//PubmedArticle")
RECURSIVE ParseFrom(_, _)
ParseFrom(nodes, i) ==
    IF i > Len(nodes) THEN <<>>
    ELSE (IF KeepArticle(nodes[i])
          THEN <<[title |-> Title(i), abstract |-> nodes[i].text]>>
          ELSE <<>>) \o ParseFrom(nodes, i + 1)

ParseArticles(nodes) == ParseFrom(nodes, 1)

-----------------------------------------------------------------------------
(* Prompt assembly in generate_ai_review *)

\* chem_context
ChemContext(c) ==
    IF c.present THEN SMILES_PREFIX \o c.smiles ELSE STRUCTURE_UNAVAILABLE

\* articles, unsliced
TopArticlesAll(arts) == arts
\* articles[:3]
TopArticles(arts) == Take(arts, LitLimit)

\* art['abstract'][:300]
Truncate(abstract) == Take(abstract, AbstractBudget)

\* One "- Title: ..\n  Abstract: .....\n" entry: the title, the abstract
\* characters taken, and the marker appended after them
LitItem(art) ==
    [title |-> art.title, abstract |-> Truncate(art.abstract), marker |-> ELLIPSIS]

\* lit_context: the entries, or the placeholder text when articles is empty
LitContext(arts) ==
    IF Len(arts) > 0
    THEN [items |-> [i \in 1..Len(TopArticles(arts)) |-> LitItem(TopArticles(arts)[i])],
          text |-> <<>>]
    ELSE [items |-> <<>>, text |-> NO_LITERATURE]

NoContext == [items |-> <<>>, text |-> <<>>]

\* if chem and articles:
HasDataBoth(c, arts) == c.present /\ Len(arts) > 0
\* if chem or articles:
HasData(c, arts) == c.present \/ Len(arts) > 0

-----------------------------------------------------------------------------
(* The script *)

Queries == {<<>>, QueryFura}

Init ==
    /\ pc = "config"
    /\ secrets \in {{}, {"huggingface_token"}}
    /\ query = <<>>
    /\ chem = None
    /\ articles = <<>>
    /\ fetched = 0
    /\ lookups = <<>>
    /\ chem_context = <<>>
    /\ lit_context = NoContext
    /\ attempt = 0
    /\ reply = NoReply
    /\ events = <<>>
    /\ only_loading = TRUE
    /\ cid = 0
    /\ ret = Running
    /\ status = "none"

\* the gate without st.stop()
AfterGateNoStop(present) == "input"
\* where the script goes after the check of st.secrets
AfterGate(present) == IF present THEN "input" ELSE "stopped"

\* if "huggingface_token" in st.secrets: ... else: st.error(..); st.stop()
CredentialGate ==
    /\ pc = "config"
    /\ pc' = AfterGate("huggingface_token" \in secrets)
    /\ status' = IF "huggingface_token" \in secrets THEN status ELSE "error"
    /\ UNCHANGED <<secrets, query, chem, articles, fetched, lookups, chem_context,
                   lit_context, attempt, reply, events, only_loading, cid, ret>>

\* query = st.text_input(..); if query: status_placeholder.info(..)
TextInput(q) ==
    /\ pc = "input"
    /\ query' = q
    /\ pc' = IF Len(q) > 0 THEN "pubchem_search" ELSE "done"
    /\ status' = IF Len(q) > 0 THEN "searching" ELSE status
    /\ UNCHANGED <<secrets, chem, articles, fetched, lookups, chem_context,
                   lit_context, attempt, reply, events, only_loading, cid, ret>>

\* get_pubchem_data: the name search and cid = search[..][..][0]
PubchemSearch(r) ==
    /\ lookups' = Append(lookups, Logged("cids", r, FirstRowRaises(r)))
    /\ IF FirstRowRaises(r)
       THEN /\ pc' = IF ExceptException = "return_sentinel"
                     THEN "pubmed_search" ELSE "crashed"
            /\ chem' = None
            /\ cid' = cid
       ELSE /\ pc' = "pubchem_props"
            /\ cid' = r.rows[1]
            /\ chem' = chem
    /\ UNCHANGED <<secrets, query, articles, fetched, chem_context, lit_context,
                   attempt, reply, events, only_loading, ret, status>>

\* get_pubchem_data: the property fetch and the returned record
PubchemProps(r) ==
    /\ lookups' = Append(lookups, Logged("property", r, FirstRowRaises(r)))
    /\ IF FirstRowRaises(r)
       THEN /\ pc' = IF ExceptException = "return_sentinel"
                     THEN "pubmed_search" ELSE "crashed"
            /\ chem' = None
       ELSE /\ pc' = "pubmed_search"
            /\ chem' = ChemRecord(cid, r.rows[1])
    /\ UNCHANGED <<secrets, query, articles, fetched, chem_context, lit_context,
                   attempt, reply, events, only_loading, cid, ret, status>>

\* get_pubmed_literature: esearch, ids, and `if not ids: return []`
PubmedSearch(r) ==
    /\ lookups' = Append(lookups, Logged("esearch", r, IdListRaises(r)))
    /\ IF IdListRaises(r)
       THEN pc' = IF ExceptException = "return_sentinel" THEN "synthesis" ELSE "crashed"
       ELSE pc' = IF Len(IdList(r)) = 0 THEN "synthesis" ELSE "pubmed_fetch"
    /\ articles' = <<>>
    /\ UNCHANGED <<secrets, query, chem, fetched, chem_context, lit_context,
                   attempt, reply, events, only_loading, cid, ret, status>>

\* get_pubmed_literature: efetch, the parse and the filter on abstracts
PubmedFetch(r) ==
    /\ lookups' = Append(lookups,
                     [request |-> "efetch",
                      outcome |-> IF FetchRaises(r) THEN "exception" ELSE "ok"])
    /\ IF FetchRaises(r)
       THEN /\ pc' = IF ExceptException = "return_sentinel"
                     THEN "synthesis" ELSE "crashed"
            /\ articles' = <<>>
            /\ fetched' = fetched
       ELSE /\ pc' = "synthesis"
            /\ articles' = ParseArticles(r.nodes)
            /\ fetched' = Len(r.nodes)
    /\ UNCHANGED <<secrets, query, chem, chem_context, lit_context, attempt,
                   reply, events, only_loading, cid, ret, status>>

\* if chem or articles: the call of generate_ai_review up to the retry loop
Synthesize ==
    /\ pc = "synthesis"
    /\ HasData(chem, articles)
    /\ status' = "synthesizing"
    /\ chem_context' = ChemContext(chem)
    /\ lit_context' = LitContext(articles)
    /\ pc' = "requesting"
    /\ UNCHANGED <<secrets, query, chem, articles, fetched, lookups, attempt,
                   reply, events, only_loading, cid, ret>>

\* else: status_placeholder.warning("No data found. ..."), to the end of the
\* script (no article to list)
NoData ==
    /\ pc = "synthesis"
    /\ ~HasData(chem, articles)
    /\ status' = "warning"
    /\ pc' = "done"
    /\ UNCHANGED <<secrets, query, chem, articles, fetched, lookups, chem_context,
                   lit_context, attempt, reply, events, only_loading, cid, ret>>

\* One iteration of `for attempt in range(3)`
Attempt(r) ==
    /\ attempt < MaxAttempts
    /\ LET output == query_huggingface(r)
           h == HandleOutput(output)
       IN  /\ attempt' = attempt + 1
           /\ reply' = r
           /\ events' = Append(events, Request) \o h.slept
           /\ only_loading' = (only_loading /\ HasErrorField(output)
                               /\ output.error.kind = "str"
                               /\ Contains(LOADING, lower(output.error.text)))
           /\ ret' = h.end
           /\ pc' = CASE h.end.kind = "none" -> "requesting"
                      [] h.end.kind = "raise" -> "crashed"
                      [] OTHER -> "returned"
    /\ UNCHANGED <<secrets, query, chem, articles, fetched, lookups, chem_context,
                   lit_context, cid, status>>

\* The loop ends without a return: the fixed message
Exhausted ==
    /\ pc = "requesting"
    /\ attempt >= MaxAttempts
    /\ ret' = Return(JStr(SERVICE_BUSY))
    /\ pc' = "returned"
    /\ UNCHANGED <<secrets, query, chem, articles, fetched, lookups, chem_context,
                   lit_context, attempt, reply, events, only_loading, cid, status>>

\* status_placeholder.empty(); st.markdown(review); st.download_button(..),
\* then the literature section, to the end of the script
ShowReview ==
    /\ pc = "returned"
    /\ status' = "empty"
    /\ pc' = "done"
    /\ UNCHANGED <<secrets, query, chem, articles, fetched, lookups, chem_context,
                   lit_context, attempt, reply, events, only_loading, cid, ret>>

Next ==
    \/ CredentialGate
    \/ \E q \in Queries : TextInput(q)
    \/ (pc = "pubchem_search" /\ \E r \in CidReplies : PubchemSearch(r))
    \/ (pc = "pubchem_props" /\ \E r \in PropertyReplies : PubchemProps(r))
    \/ (pc = "pubmed_search" /\ \E r \in IdReplies : PubmedSearch(r))
    \/ (pc = "pubmed_fetch" /\ \E r \in FewFetchReplies : PubmedFetch(r))
    \/ Synthesize
    \/ NoData
    \/ (pc = "requesting" /\ \E r \in HfReplies : Attempt(r))
    \/ Exhausted
    \/ ShowReview

Spec == Init /\ [][Next]_vars

\* The script up to the assembled prompt, over every efetch document of the
\* bound
NextAssembly ==
    \/ CredentialGate
    \/ \E q \in Queries : TextInput(q)
    \/ (pc = "pubchem_search" /\ \E r \in CidReplies : PubchemSearch(r))
    \/ (pc = "pubchem_props" /\ \E r \in PropertyReplies : PubchemProps(r))
    \/ (pc = "pubmed_search" /\ \E r \in IdReplies : PubmedSearch(r))
    \/ (pc = "pubmed_fetch" /\ \E r \in FetchReplies : PubmedFetch(r))
    \/ Synthesize
    \/ NoData

SpecAssembly == Init /\ [][NextAssembly]_vars

-----------------------------------------------------------------------------
(* Properties *)

NumRequests == Cardinality({i \in 1..Len(events) : events[i].kind = "request"})
NumSleeps == Cardinality({i \in 1..Len(events) : events[i].kind = "sleep"})

\* the output generate_ai_review got from the last inference request
LastOutput == query_huggingface(reply)

Generated == pc \in {"requesting", "returned", "crashed"} \/ status = "empty"
Ended == pc \in {"returned", "done"}

\* C1: one call of generate_ai_review makes at most 3 inference requests
\* whatever the backend answers; when every attempt reported an error whose
\* text contains "loading", the call never raises, goes on until it has made
\* exactly 3 requests, and then returns the fixed service-busy message.
C1_AtMostThreeAttempts ==
    /\ NumRequests <= 3
    /\ NumRequests = attempt
    /\ (Generated /\ only_loading) =>
          /\ pc # "crashed"
          /\ ret.kind # "raise"
          /\ pc = "requesting" => ret = Running
          /\ Ended => /\ NumRequests = 3
                      /\ ret = Return(JStr(SERVICE_BUSY))

C1_Witness ==
    /\ pc = "returned"
    /\ only_loading
    /\ NumRequests = 3
    /\ NumSleeps = 3
    /\ ret = Return(JStr(SERVICE_BUSY))

\* C2: an HTTP 503 answer is retryable: after a 503 on an attempt before the
\* third, generate_ai_review has not returned; it has taken the retry delay
\* and goes on to the next request.
C2_Http503IsRetried ==
    (reply.transport = "ok" /\ reply.code = 503 /\ attempt < 3) =>
        /\ pc = "requesting"
        /\ ret = Running
        /\ events[Len(events)].kind = "sleep"

NonLoadingError(output) ==
    /\ output.kind = "dict"
    /\ "error" \in output.keys
    /\ output.error.kind = "str"
    /\ ~Contains(LOADING, lower(output.error.text))

\* C3: when an attempt (the first or a later one) yields an "error" field
\* whose text does not contain "loading", compared case-insensitively,
\* generate_ai_review stops at that attempt: the request is its last event
\* (no delay, no further request) and it returns the error text behind the
\* "AI Error" marker.
C3_OtherErrorStops ==
    (reply # NoReply /\ NonLoadingError(LastOutput)) =>
        /\ Ended
        /\ ret = Return(JStr(AI_ERROR_PREFIX \o LastOutput.error.text))
        /\ events[Len(events)] = Request
        /\ NumRequests = attempt

C3_Witness ==
    /\ pc = "returned"
    /\ attempt = 2
    /\ NumSleeps = 1
    /\ reply.code = 200
    /\ NonLoadingError(LastOutput)
    /\ ret = Return(JStr(AI_ERROR_PREFIX \o MsgRateLimit))

\* C4: generate_ai_review never raises past its boundary: whatever the
\* inference client returns, the call ends with a text (generated text, a
\* prefixed error message or the service-busy message).
C4_NeverRaises ==
    /\ pc # "crashed"
    /\ ret.kind # "raise"
    /\ Ended => (ret.kind = "return" /\ ret.value.kind = "str")

\* C5: the literature block of the prompt holds at most 3 items, the first
\* min(3, n) of the n articles of the lookup in their order; the abstract
\* characters of an item are the first ones of the article's abstract and at
\* most 300; no article of the lookup has an empty or missing abstract.
C5_LiteratureBlockBounded ==
    /\ Len(articles) <= fetched
    /\ \A i \in 1..Len(articles) : Len(articles[i].abstract) > 0
    /\ \A i \in 1..Len(articles), j \in 1..Len(articles) :
          (i < j) => articles[i].title # articles[j].title
    /\ pc = "requesting" =>
          LET items == lit_context.items
          IN  /\ Len(items) <= 3
              /\ Len(items) = (IF Len(articles) < 3 THEN Len(articles) ELSE 3)
              /\ \A i \in 1..Len(items) :
                    /\ items[i].title = articles[i].title
                    /\ Len(items[i].abstract) <= 300
                    /\ Len(items[i].abstract) > 0
                    /\ Len(items[i].abstract) =
                          (IF Len(articles[i].abstract) < 300
                           THEN Len(articles[i].abstract) ELSE 300)
                    /\ items[i].abstract =
                          SubSeq(articles[i].abstract, 1, Len(items[i].abstract))
              /\ (lit_context.text = NO_LITERATURE) <=> (Len(articles) = 0)

C5_Witness ==
    /\ pc = "requesting"
    /\ fetched > Len(articles)
    /\ Len(articles) > 3
    /\ Len(lit_context.items) = 3
    /\ Len(articles[2].abstract) > 300
    /\ Len(lit_context.items[2].abstract) = 300
    /\ Len(articles[4].abstract) > 0

\* C6, as stated: for every non-empty query a script run that reaches its
\* end has made at least one inference request, whatever the lookups
\* returned.
C6_GenerationAlwaysAttempted ==
    (pc = "done" /\ Len(query) > 0) => NumRequests >= 1

\* C6, amended: for every non-empty query, generation is attempted exactly
\* when the chemistry record or at least one article is present (an absent
\* chemistry record gets the placeholder text); when both are absent no
\* inference request is made and the no-data warning is shown.
C6_GenerationAttemptedWithData ==
    /\ (Len(query) > 0 /\ pc \in {"done", "returned", "crashed"}) =>
          IF chem.present \/ Len(articles) > 0
          THEN /\ NumRequests >= 1
               /\ status # "warning"
               /\ chem_context =
                     (IF chem.present THEN SMILES_PREFIX \o chem.smiles
                      ELSE STRUCTURE_UNAVAILABLE)
          ELSE /\ NumRequests = 0
               /\ status = "warning"
    /\ (pc = "synthesis" /\ (chem.present \/ Len(articles) > 0)) => ENABLED Synthesize

C6_Witness ==
    /\ pc = "done"
    /\ Len(query) > 0
    /\ ~chem.present
    /\ Len(articles) > 0
    /\ NumRequests >= 1
    /\ chem_context = STRUCTURE_UNAVAILABLE

PubchemReturned ==
    pc \in {"pubmed_search", "pubmed_fetch", "synthesis", "requesting", "done"}
PubmedReturned == pc \in {"synthesis", "requesting", "done"}

\* C7: a lookup client never raises to its caller: a request that fails
\* (transport, body, shape) or finds nothing is the client's last request and
\* the client returns its sentinel, None for get_pubchem_data and the empty
\* list for get_pubmed_literature.  After a name search with zero identifiers
\* no property request is issued; after an id search with zero identifiers no
\* efetch request is issued.
C7_LookupFailureIsAbsence ==
    /\ pc # "crashed"
    /\ \A i \in 1..Len(lookups) :
          lookups[i].outcome # "ok" =>
              /\ lookups[i].request \in {"cids", "property"} =>
                    /\ PubchemReturned
                    /\ chem = None
                    /\ i < Len(lookups) => lookups[i + 1].request = "esearch"
              /\ lookups[i].request \in {"esearch", "efetch"} =>
                    /\ PubmedReturned
                    /\ articles = <<>>
                    /\ i = Len(lookups)

C7_Witness ==
    /\ pc = "synthesis"
    /\ Len(lookups) = 2
    /\ lookups[1] = [request |-> "cids", outcome |-> "empty"]
    /\ lookups[2] = [request |-> "esearch", outcome |-> "empty"]
    /\ chem = None
    /\ articles = <<>>

\* C8: while the inference credential is missing from the configuration the
\* script does not get past its start: no lookup request and no inference
\* request is issued and no query is read; the error is shown and the script
\* is stopped.
C8_NoCredentialNoRequest ==
    ("huggingface_token" \notin secrets) =>
        /\ pc \in {"config", "stopped"}
        /\ lookups = <<>>
        /\ events = <<>>
        /\ query = <<>>
        /\ pc = "stopped" => status = "error"

C8_Witness ==
    /\ "huggingface_token" \notin secrets
    /\ pc = "stopped"
    /\ status = "error"

\* C9: between two consecutive inference requests of one generation there is
\* exactly one 3-second delay: every request that is not the last event is
\* followed by a sleep of 3 seconds, and every sleep follows a request.
C9_DelayBeforeEveryRetry ==
    \A i \in 1..Len(events) :
        /\ (events[i].kind = "request" /\ i < Len(events)) =>
              events[i + 1] = Sleep(3)
        /\ events[i].kind = "sleep" => (i > 1 /\ events[i - 1].kind = "request")

\* the response carries a generated-text field in one of the two shapes
CarriesText(output) ==
    \/ /\ output.kind = "list"
       /\ Len(output.elems) > 0
       /\ output.elems[1].kind = "dict"
       /\ "generated_text" \in output.elems[1].keys
    \/ /\ output.kind = "dict"
       /\ "generated_text" \in output.keys
       /\ "error" \notin output.keys

CarriedText(output) ==
    IF output.kind = "list" THEN output.elems[1].generated_text
    ELSE output.generated_text

\* C10, as stated: a response that carries a generated-text field in either
\* known shape ends the generation at its attempt, for every value of the
\* field: the value is returned unchanged and no request follows.
C10_FirstTextEnds ==
    (reply # NoReply /\ CarriesText(LastOutput)) =>
        /\ Ended
        /\ ret = Return(CarriedText(LastOutput))
        /\ NumRequests = attempt

\* C10, amended: a response that carries a generated-text field in either
\* known shape whose value is a non-empty text ends the generation at its
\* attempt k: the value is returned unchanged, k requests have been made and
\* the request is the last event.
C10_FirstNonEmptyTextEnds ==
    (/\ reply # NoReply
     /\ CarriesText(LastOutput)
     /\ CarriedText(LastOutput).kind = "str"
     /\ Len(CarriedText(LastOutput).text) > 0) =>
        /\ Ended
        /\ ret = Return(CarriedText(LastOutput))
        /\ NumRequests = attempt
        /\ events[Len(events)] = Request

C10_Witness ==
    /\ pc = "returned"
    /\ attempt = 3
    /\ LastOutput.kind = "dict"
    /\ CarriesText(LastOutput)
    /\ ret = Return(JStr(TextShort))
    /\ NumRequests = 3

=============================================================================
